---- MODULE Spec2Model ----
(***************************************************************************)
(* Phone verification service of the appointment application               *)
(* (src/lib/actions/verification.actions.ts): sendVerificationSMS,         *)
(* verifyCode and isPhoneVerified against the hosted verification          *)
(* collection.  Every await of a handler is one step, so that calls can    *)
(* interleave at exactly the points where the code suspends.               *)
(*                                                                         *)
(* Appointment lifecycle as driven by the patient's appointment form, the  *)
(* payment step, the success page and the admin table                      *)
(* (src/components/forms/AppointmentForm.tsx, src/unnamed/part_003,        *)
(* src/app/patients/[userId]/new-appointment/success/page.tsx,             *)
(* src/unnamed/part_006).  The two parts share no state: each has its own  *)
(* specifications, in which the other part stands still.                   *)
(*                                                                         *)
(* Doctor directory (createDoctor, getAllDoctors, deleteDoctor, lines      *)
(* 228-362 of src/lib/actions/verification.actions.ts), the add-doctor     *)
(* form (src/unnamed/part_004) and the appointment form's consultation     *)
(* cost (calculateAppointmentCost), again with specifications of its own.  *)
(***************************************************************************)
EXTENDS Integers, FiniteSets, Sequences, TLC

(* ------------------------------ bounds --------------------------------- *)
\* number of verification documents created in a run
MaxDocs == 2
\* number of clock advances in a run
MaxTicks == 2

(* ------------------------- program constants --------------------------- *)
\* expiresAt.setMinutes(expiresAt.getMinutes() + 10)
Ttl == 10
\* if (attempts >= 5)
MaxAttempts == 5

\* the clock is read in minutes and advances in steps of half the lifetime,
\* so that a record is seen before and exactly at its expiresAt, and two
\* records can have lifetimes that overlap in part
TickStep == Ttl \div 2

\* two call slots: any two calls can overlap
Procs == {1, 2}
\* Caller is the phone whose holder may submit anything; the holder of Other
\* submits only codes that are stored for it
Caller == "+15550000001"
Other == "+15550000002"
Phones == {Caller, Other}
\* A code is modelled by its numeric value ("000000" is 0): toString is
\* one-to-one on the generator's range.
\* generateVerificationCode: Math.floor(100000 + Math.random() * 900000).
\* The draws are inputs; the model draws a different code for every document.
CodeBase == 100000
GenerateVerificationCode(id) == CodeBase + id
\* a value no code has
NoCode == -CodeBase
\* what a caller may submit: any code ever generated, or one never generated
SubmitCodes == {GenerateVerificationCode(i) : i \in 1..MaxDocs} \cup {0}

NoPhone == ""
NoDoc == [id |-> 0, phone |-> NoPhone, code |-> NoCode, expiresAt |-> 0,
          attempts |-> 0, verified |-> FALSE]

MsgNone == ""
MsgSent == "Verification code sent"
MsgSendFailed == "Failed to send verification code. Please try again."
MsgNotFound == "Verification code expired or not found. Please request a new code."
MsgAlready == "Phone already verified"
MsgTooMany == "Too many failed attempts. Please request a new code."
MsgInvalid == "Invalid code. N attempts remaining."
MsgVerified == "Phone verified successfully"
MsgVerifyFailed == "Failed to verify code. Please try again."
\* isPhoneVerified returns a bare boolean: it is carried in .success
MsgIsVerified == "isPhoneVerified"

\* a handler's return value; left is the N of MsgInvalid
Result(s, m, n) == [success |-> s, message |-> m, left |-> n]
NoResult == Result(FALSE, MsgNone, 0)

VARIABLES
    now,      \* the wall clock, in minutes
    db,       \* the verification collection: a set of documents
    nextId,   \* ID.unique(): documents are numbered in creation order
    call,     \* per call slot: position and locals of the handler running in it
    ret,      \* the call that returned in the last step (op "none" if none did)
    miss,     \* the document the checks since the last sendVerificationSMS ran
              \* against, how many of them carried a code other than its own
              \* (n) and how many codes were compared with its code while
              \* it was stored and not verified (cmp)
    undelivered,  \* the codes whose SMS dispatch failed; a code is dropped
                  \* once its document is gone
    appointments,  \* the appointment collection: documents in creation order
    form,     \* the patient's create form: its step and appointmentData
    page,     \* the success page: appointmentId and its React state
    modal,    \* the admin table's open AppointmentModal and its form values
    doctors,  \* the doctor collection: documents, newest first
    files,    \* the storage bucket: the ids of the files it holds
    nextDoctor,  \* ID.unique() for doctors and files
    zone,     \* the server's time zone: minutes east of UTC
    del,      \* per call slot: position and locals of a deleteDoctor call
    dret,     \* the deleteDoctor call that ended in the last step
    fetched,  \* the appointment form's doctors state
    cost,     \* the appointmentCost handed to the payment step, and for whom
    reg,      \* the registration form (PatientForm) and the PhoneVerification
              \* component it shows: their React state and form values
    board,    \* the admin's DoctorsList: its doctors and deleteConfirm state
    sent      \* the handler that ran in the last step (by: "form" for the
              \* appointment form's submit handler, "payment" for its payment
              \* callback, "page", "modal"), the reason it was given, and the
              \* server action it called (fn "none" if none)

verVars == <<now, db, nextId, call, ret, miss, undelivered>>
apptVars == <<appointments, form, page, modal, sent>>
doctorVars == <<doctors, files, nextDoctor, zone, del, dret, fetched, cost>>
uiVars == <<reg, board>>
vars == <<verVars, apptVars, doctorVars, uiVars>>

\* Beside the handler's locals a call carries four history fields:
\* pre, the phone's documents that were unexpired when the call started;
\* wasVerified, whether one of them was verified; made, the clock value at
\* which it stored its document; fault, whether a collaborator step of it
\* threw.
IdleCall == [pc |-> "idle", op |-> "none", phone |-> NoPhone, code |-> NoCode,
             docs |-> {}, ver |-> NoDoc, attempts |-> 0, result |-> NoResult,
             pre |-> {}, wasVerified |-> FALSE, made |-> 0, fault |-> FALSE]
NoRet == IdleCall
NoMiss == [id |-> 0, phone |-> NoPhone, n |-> 0, cmp |-> 0]

(* ------------------------- the hosted collection ----------------------- *)
Ids(S) == {r.id : r \in S}
DocById(id) == CHOOSE r \in db : r.id = id
MinId(S) == CHOOSE i \in S : \A j \in S : i <= j

\* Query.greaterThan("expiresAt", t)
GreaterThanExpiresAt_Lt(r, t) == r.expiresAt < t
GreaterThanExpiresAt_Ge(r, t) == r.expiresAt >= t
GreaterThanExpiresAt(r, t) == r.expiresAt > t

\* listDocuments([equal("phone", ph), greaterThan("expiresAt", t)])
ListUnexpired_NoPhone(ph, t) == {r \in db : GreaterThanExpiresAt(r, t)}
ListUnexpired(ph, t) == {r \in db : r.phone = ph /\ GreaterThanExpiresAt(r, t)}

\* listDocuments([equal("phone"), equal("verified", true), greaterThan("expiresAt")])
ListVerified(ph, t) == {r \in ListUnexpired(ph, t) : r.verified}

\* documents[0]: the collection lists in creation order
FirstDoc(S) == CHOOSE r \in S : r.id = MinId(Ids(S))

\* the document createDocument stores at time t
NewDoc_Stale(id, ph, c, t) ==
    [id |-> id, phone |-> ph, code |-> c, expiresAt |-> t,
     attempts |-> 0, verified |-> FALSE]
NewDoc(id, ph, c, t) ==
    [id |-> id, phone |-> ph, code |-> c, expiresAt |-> t + Ttl,
     attempts |-> 0, verified |-> FALSE]

\* updateDocument(id, patch) on the stored document
SetAttempts_Atomic(r, a) == [r EXCEPT !.attempts = r.attempts + 1]
SetAttempts(r, a) == [r EXCEPT !.attempts = a]
SetVerified(r) == [r EXCEPT !.verified = TRUE]

\* const attempts = verification.attempts + 1
IncAttempts_Same(a) == a
IncAttempts(a) == a + 1

\* if (attempts >= 5)
TooMany_Gt(a) == a > MaxAttempts
TooMany(a) == a >= MaxAttempts

\* if (verification.verified)
AlreadyVerified_Never(v) == FALSE
AlreadyVerified(v) == v.verified

\* lines 120-139: the ceiling is applied to the incremented count before the
\* count is stored and before the code is compared
AfterIncrement_NoCeiling(a) == "v_update"
AfterIncrement(a) == IF TooMany(a) THEN "v_delete" ELSE "v_update"

\* verification.code !== code
Mismatch_Never(stored, c) == FALSE
Mismatch(stored, c) == stored # c

(* ------------------------------ handlers ------------------------------- *)
Idle(p) == call[p].pc = "idle"
Quiet == \A q \in Procs : Idle(q)
Sending == {q \in Procs : call[q].op = "send"}

\* those of the codes that a stored document has
Stored(codes) == {c \in codes : \E r \in db : r.code = c}

\* the handler whose locals are c returns res from slot p
Return(p, c, res) ==
    /\ call' = [call EXCEPT ![p] = IdleCall]
    /\ ret' = [c EXCEPT !.pc = "idle", !.result = res]
    /\ undelivered' = Stored(IF c.op = "send" /\ c.pc = "s_sms" /\ c.fault
                              THEN undelivered \cup {c.code} ELSE undelivered)
    /\ UNCHANGED <<apptVars, doctorVars, uiVars>>

\* a collaborator step threw: the catch block returns the handler's failure
Throw_Rethrow(p, c, msg) == Return(p, [c EXCEPT !.fault = TRUE], NoResult)
Throw(p, c, msg) == Return(p, [c EXCEPT !.fault = TRUE], Result(FALSE, msg, 0))

\* the handler in slot p goes on to its next await
Goto(p, c, pc) ==
    /\ call' = [call EXCEPT ![p] = [c EXCEPT !.pc = pc]]
    /\ ret' = NoRet
    /\ undelivered' = Stored(undelivered)
    /\ UNCHANGED <<apptVars, doctorVars, uiVars>>

Begin(o, ph, c) ==
    [IdleCall EXCEPT !.op = o, !.phone = ph, !.code = c,
        !.pre = {r.id : r \in {x \in db : x.phone = ph /\ x.expiresAt > now}},
        !.wasVerified = \E x \in db : x.phone = ph /\ x.expiresAt > now /\ x.verified]

\* a check against document id went on; wrong: it returned and its code was
\* not the stored one; compared: it reached the comparison of line 142
Counted(ph, id, wrong, compared) ==
    LET n == IF miss.id = id THEN miss.n ELSE 0
        k == IF miss.id = id THEN miss.cmp ELSE 0
        m == IF wrong /\ n < MaxAttempts THEN n + 1 ELSE n
        j == IF compared /\ k < MaxAttempts THEN k + 1 ELSE k
    IN miss' = [id |-> id, phone |-> ph, n |-> m, cmp |-> j]

\* a check against document id returned and the document is verified or
\* deleted: no comparison counts against it any more
Settled(ph, id, wrong) ==
    LET n == IF miss.id = id THEN miss.n ELSE 0
        m == IF wrong /\ n < MaxAttempts THEN n + 1 ELSE n
    IN miss' = [id |-> id, phone |-> ph, n |-> m, cmp |-> 0]

\* line 39: the loop deletes every document the query found
AfterList_NoDelete(found) == "s_create"
AfterList(found) == IF found = {} THEN "s_create" ELSE "s_delete"

\* sendVerificationSMS, lines 26-36: the call and its listDocuments
SendList(p, ph, ok) ==
    /\ Idle(p)
    /\ nextId + Cardinality(Sending) <= MaxDocs
    /\ LET c0 == Begin("send", ph, NoCode)
           found == Ids(ListUnexpired(ph, now))
       IN IF ~ok
          THEN Throw(p, c0, MsgSendFailed)
          ELSE Goto(p, [c0 EXCEPT !.docs = found], AfterList(found))
    /\ miss' = NoMiss
    /\ UNCHANGED <<now, db, nextId>>

\* lines 39-45: one deleteDocument of the loop
SendDelete(p, ok) ==
    /\ call[p].pc = "s_delete"
    /\ LET id == MinId(call[p].docs)
           rest == call[p].docs \ {id}
       IN IF ok /\ id \in Ids(db)
          THEN /\ db' = db \ {DocById(id)}
               /\ Goto(p, [call[p] EXCEPT !.docs = rest],
                       IF rest = {} THEN "s_create" ELSE "s_delete")
          ELSE /\ Throw(p, call[p], MsgSendFailed)
               /\ db' = db
    /\ UNCHANGED <<now, nextId, miss>>

\* lines 47-66: generate the code, compute expiresAt, createDocument
SendCreate(p, ok) ==
    /\ call[p].pc = "s_create"
    /\ IF ok
       THEN /\ db' = db \cup {NewDoc(nextId, call[p].phone,
                                    GenerateVerificationCode(nextId), now)}
            /\ nextId' = nextId + 1
            /\ Goto(p, [call[p] EXCEPT !.code = GenerateVerificationCode(nextId),
                                       !.made = now], "s_sms")
       ELSE /\ Throw(p, call[p], MsgSendFailed)
            /\ UNCHANGED <<db, nextId>>
    /\ UNCHANGED <<now, miss>>

\* lines 76-82: the catch block of sendVerificationSMS touches no document
CatchSend_Rollback(c) == {r \in db : r.code # c.code}
CatchSend(c) == db

\* lines 68-82: twilioClient.messages.create, then return
SendSms(p, ok) ==
    /\ call[p].pc = "s_sms"
    /\ IF ok
       THEN Return(p, call[p], Result(TRUE, MsgSent, 0)) /\ db' = db
       ELSE Throw(p, call[p], MsgSendFailed) /\ db' = CatchSend(call[p])
    /\ UNCHANGED <<now, nextId, miss>>

\* verifyCode, lines 86-120: the call, its listDocuments and what follows
\* until the next await
CheckList(p, ph, c, ok) ==
    /\ Idle(p)
    /\ LET c0 == Begin("check", ph, c)
           found == ListUnexpired(ph, now)
       IN IF ~ok
          THEN Throw(p, c0, MsgVerifyFailed) /\ miss' = miss
          ELSE IF found = {}
          THEN Return(p, c0, Result(FALSE, MsgNotFound, 0)) /\ miss' = miss
          ELSE LET v == FirstDoc(found)
                   c1 == [c0 EXCEPT !.ver = v]
                   a == IncAttempts(v.attempts)
               IN IF AlreadyVerified(v)
                  THEN /\ Return(p, c1, Result(TRUE, MsgAlready, 0))
                       /\ Settled(ph, v.id, v.code # c)
                  ELSE /\ Goto(p, [c1 EXCEPT !.attempts = a], AfterIncrement(a))
                       /\ miss' = miss
    /\ UNCHANGED <<now, db, nextId>>

\* lines 120-131: deleteDocument, "Too many failed attempts"
CheckDelete(p, ok) ==
    /\ call[p].pc = "v_delete"
    /\ IF ok /\ call[p].ver.id \in Ids(db)
       THEN /\ db' = db \ {DocById(call[p].ver.id)}
            /\ Return(p, call[p], Result(FALSE, MsgTooMany, 0))
            /\ Settled(call[p].phone, call[p].ver.id, call[p].ver.code # call[p].code)
       ELSE /\ Throw(p, call[p], MsgVerifyFailed)
            /\ UNCHANGED <<db, miss>>
    /\ UNCHANGED <<now, nextId>>

\* lines 133-147: updateDocument({attempts}), then the comparison
CheckUpdate(p, ok) ==
    /\ call[p].pc = "v_update"
    /\ IF ok /\ call[p].ver.id \in Ids(db)
       THEN /\ db' = (db \ {DocById(call[p].ver.id)})
                     \cup {SetAttempts(DocById(call[p].ver.id), call[p].attempts)}
            /\ IF Mismatch(call[p].ver.code, call[p].code)
               THEN /\ Return(p, call[p],
                          Result(FALSE, MsgInvalid, MaxAttempts - call[p].attempts))
                    /\ Counted(call[p].phone, call[p].ver.id, TRUE, TRUE)
               ELSE /\ Goto(p, call[p], "v_mark")
                    /\ Counted(call[p].phone, call[p].ver.id, FALSE, TRUE)
       ELSE /\ Throw(p, call[p], MsgVerifyFailed)
            /\ UNCHANGED <<db, miss>>
    /\ UNCHANGED <<now, nextId>>

\* lines 149-157: updateDocument({verified: true}), success
CheckMark(p, ok) ==
    /\ call[p].pc = "v_mark"
    /\ IF ok /\ call[p].ver.id \in Ids(db)
       THEN /\ db' = (db \ {DocById(call[p].ver.id)})
                     \cup {SetVerified(DocById(call[p].ver.id))}
            /\ Return(p, call[p], Result(TRUE, MsgVerified, 0))
            /\ Settled(call[p].phone, call[p].ver.id, call[p].ver.code # call[p].code)
       ELSE /\ Throw(p, call[p], MsgVerifyFailed)
            /\ UNCHANGED <<db, miss>>
    /\ UNCHANGED <<now, nextId>>

\* isPhoneVerified, lines 168-185
IsPhoneVerified(p, ph, ok) ==
    /\ Idle(p)
    /\ LET c0 == Begin("isVerified", ph, NoCode)
       IN IF ok
          THEN Return(p, c0, Result(ListVerified(ph, now) # {}, MsgIsVerified, 0))
          ELSE Return(p, [c0 EXCEPT !.fault = TRUE], Result(FALSE, MsgIsVerified, 0))
    /\ UNCHANGED <<now, db, nextId, miss>>

\* time passes, also while handlers are suspended at an await
Tick ==
    /\ now + TickStep <= MaxTicks * TickStep
    /\ now' = now + TickStep
    /\ ret' = NoRet
    /\ UNCHANGED <<db, nextId, call, miss, undelivered>>
    /\ UNCHANGED <<apptVars, doctorVars, uiVars>>

(* ------------------------- appointment lifecycle ----------------------- *)
\* number of appointments created in a run
MaxAppts == 1

\* what the forms can be filled with: a doctor's name, one of two instants of
\* the date picker, and a cancellation reason that is empty, blank or a text
Physicians == {"Dr. Sarah Johnson", "Dr. Michael Chen"}
Schedules == {1, 2}
Reasons == {"", " ", "conflict"}
\* the admin leaves the reason field of a cancel form empty or types a reason
AdminReasons == Reasons \ {" "}
\* String.prototype.trim on those texts
Trim(r) == IF r = " " THEN "" ELSE r
\* a key an object does not have, an attribute a document does not have
Undefined == "undefined"
\* x || ""
OrEmpty(x) == IF x = Undefined THEN "" ELSE x

NoAppointment == [status |-> "none", primaryPhysician |-> "", schedule |-> 0,
                  cancellationReason |-> Undefined]
\* of a server action's argument sent keeps the status and cancellationReason;
\* loading is the payment form's isLoading flag as the handler found it
NoCall == [fn |-> "none", by |-> "", appointmentId |-> 0, type |-> "",
           status |-> "none", cancellationReason |-> Undefined, loading |-> FALSE]
NoForm == [step |-> "form", appointmentData |-> NoAppointment]
\* the page's cancellationReason state is what was last typed into the
\* dialog; it is an input of handleCancelAppointment below
NoPage == [appointmentId |-> 0, appointmentData |-> NoAppointment,
           isCancelled |-> FALSE]
NoModal == [type |-> "none", appointmentId |-> 0,
            values |-> [primaryPhysician |-> "", schedule |-> 0,
                        cancellationReason |-> ""]]

AppointmentIds == 1..Len(appointments)

\* AppointmentForm.tsx lines 602-612: the status a form of this type submits
StatusOf(type) ==
    CASE type = "schedule" -> "scheduled"
      [] type = "cancel" -> "cancelled"
      [] OTHER -> "pending"

\* createAppointment: persists the document it is given
CreateAppointment(info) == Append(appointments, info)

\* updateAppointment: the document takes the fields of the patch, and the
\* status that goes with the type
UpdateAppointment(id, patch, type) ==
    [appointments EXCEPT ![id] =
        [status |-> StatusOf(type),
         primaryPhysician |-> patch.primaryPhysician,
         schedule |-> patch.schedule,
         cancellationReason |->
            IF patch.cancellationReason = Undefined
            THEN appointments[id].cancellationReason
            ELSE patch.cancellationReason]]

\* getAppointmentSchema(type): a cancel form requires its cancellationReason
Valid(type, values) == type = "cancel" => values.cancellationReason # ""

\* the handler ran and called no server action
Declined(by, r) == sent' = [NoCall EXCEPT !.by = by, !.cancellationReason = r]

CallOf(fn, by, id, type, appointment) ==
    [fn |-> fn, by |-> by, appointmentId |-> id, type |-> type,
     status |-> appointment.status,
     cancellationReason |-> appointment.cancellationReason, loading |-> FALSE]

Called(fn, by, id, type, appointment) == sent' = CallOf(fn, by, id, type, appointment)

\* success page, lines 56-94: the page is opened for appointment id and
\* loads it; ok: getAppointment answers
LoadAppointmentData(id, ok) ==
    IF ok
    THEN [appointmentId |-> id, appointmentData |-> appointments'[id],
          isCancelled |-> appointments'[id].status = "cancelled"]
    ELSE [NoPage EXCEPT !.appointmentId = id]

\* AppointmentForm.tsx lines 599-650 with type "create": the patient submits
\* the form.  With a patientId the values are kept for the payment step; with
\* none the form calls updateAppointment for an appointment it does not have.
HandleAppointmentSubmit_CreateNow(physician, schedule, patientId) ==
    /\ form.step = "form"
    /\ Len(appointments) < MaxAppts
    /\ LET info == [status |-> StatusOf("create"), primaryPhysician |-> physician,
                    schedule |-> schedule, cancellationReason |-> Undefined]
       IN /\ form' = [step |-> "form", appointmentData |-> NoAppointment]
          /\ appointments' = CreateAppointment(info)
          /\ Called("createAppointment", "form", Len(appointments) + 1, "create", info)
    /\ UNCHANGED <<page, modal>>
    /\ UNCHANGED <<verVars, doctorVars, uiVars>>
HandleAppointmentSubmit(physician, schedule, patientId) ==
    /\ form.step = "form"
    /\ Len(appointments) < MaxAppts
    /\ LET info == [status |-> StatusOf("create"), primaryPhysician |-> physician,
                    schedule |-> schedule, cancellationReason |-> Undefined]
       IN IF patientId # ""
          THEN /\ form' = [step |-> "payment", appointmentData |-> info]
               /\ sent' = NoCall
          ELSE /\ form' = form
               /\ Called("updateAppointment", "form", 0, "create",
                         [info EXCEPT !.cancellationReason = ""])
    /\ UNCHANGED <<appointments, page, modal>>
    /\ UNCHANGED <<verVars, doctorVars, uiVars>>

\* part_003 line 88 and 118-122: isLoading is true from the submission until
\* the timer fires
IsLoading == form.step = "timer"

\* SubmitButton: while isLoading the button is disabled and the form cannot
\* be submitted
SubmitDisabled(isLoading) == isLoading

\* part_003 lines 121-124, the timer's callback: setIsLoading(false), then
\* onPaymentComplete(); the value is the flag onPaymentComplete finds
TimerCallback_CallFirst(isLoading) == isLoading
TimerCallback(isLoading) == FALSE

\* part_003 lines 117-125: the payment form is submitted and starts its timer
PaymentOnSubmit ==
    /\ form.step = "payment"
    /\ ~SubmitDisabled(IsLoading)
    /\ form' = [form EXCEPT !.step = "timer"]
    /\ sent' = NoCall
    /\ UNCHANGED <<appointments, page, modal>>
    /\ UNCHANGED <<verVars, doctorVars, uiVars>>

\* part_003 lines 121-124 and AppointmentForm.tsx lines 652-669: the timer
\* fires, onPaymentComplete calls createAppointment; on an answer the browser
\* goes to the success page, which loads the appointment; otherwise the
\* payment step stays
HandlePaymentComplete(ok, okLoad) ==
    /\ form.step = "timer"
    /\ sent' = [CallOf("createAppointment", "payment", Len(appointments) + 1,
                        "create", form.appointmentData)
                    EXCEPT !.loading = TimerCallback(IsLoading)]
    /\ IF ok
       THEN /\ appointments' = CreateAppointment(form.appointmentData)
            /\ form' = NoForm
            /\ page' = LoadAppointmentData(Len(appointments) + 1, okLoad)
       ELSE /\ form' = [form EXCEPT !.step = "payment"]
            /\ UNCHANGED <<appointments, page>>
    /\ UNCHANGED modal
    /\ UNCHANGED <<verVars, doctorVars, uiVars>>

\* the success page is opened again for an appointment
OpenSuccessPage(id, ok) ==
    /\ id \in AppointmentIds
    /\ appointments' = appointments
    /\ page' = LoadAppointmentData(id, ok)
    /\ sent' = NoCall
    /\ UNCHANGED <<form, modal>>
    /\ UNCHANGED <<verVars, doctorVars, uiVars>>

\* success page, line 137
BlankReason_EmptyOnly(r) == r = ""
BlankReason(r) == Trim(r) = ""

\* success page, lines 136-190, with r typed into the dialog; ok:
\* updateAppointment answers with the updated appointment
HandleCancelAppointment(r, ok) ==
    /\ page.appointmentId # 0
    /\ ~page.isCancelled
    /\ IF BlankReason(r) \/ page.appointmentData = NoAppointment
       THEN /\ page' = page
            /\ Declined("page", r)
            /\ appointments' = appointments
       ELSE LET patch == [status |-> "cancelled",
                          primaryPhysician |-> page.appointmentData.primaryPhysician,
                          schedule |-> page.appointmentData.schedule,
                          cancellationReason |-> r]
            IN /\ Called("updateAppointment", "page", page.appointmentId, "cancel", patch)
               /\ IF ok
                  THEN /\ appointments' = UpdateAppointment(page.appointmentId, patch, "cancel")
                       /\ page' = [page EXCEPT
                                     !.isCancelled = TRUE,
                                     !.appointmentData.status = "cancelled",
                                     !.appointmentData.cancellationReason = r]
                  ELSE /\ appointments' = appointments
                       /\ page' = page
    /\ UNCHANGED <<form, modal>>
    /\ UNCHANGED <<verVars, doctorVars, uiVars>>

\* part_006 lines 100-126 and AppointmentForm.tsx lines 534-545: the admin
\* opens the schedule or the cancel modal of a row; the form takes its
\* default values from the row's appointment
OpenModal_NotCancelled(id, type) ==
    /\ id \in AppointmentIds
    /\ type \in {"schedule", "cancel"}
    /\ appointments[id].status # "cancelled"
    /\ modal' = [type |-> type, appointmentId |-> id,
                 values |-> [primaryPhysician |-> appointments[id].primaryPhysician,
                             schedule |-> appointments[id].schedule,
                             cancellationReason |->
                                 OrEmpty(appointments[id].cancellationReason)]]
    /\ sent' = NoCall
    /\ UNCHANGED <<appointments, form, page>>
    /\ UNCHANGED <<verVars, doctorVars, uiVars>>
OpenModal(id, type) ==
    /\ id \in AppointmentIds
    /\ type \in {"schedule", "cancel"}
    /\ modal' = [type |-> type, appointmentId |-> id,
                 values |-> [primaryPhysician |-> appointments[id].primaryPhysician,
                             schedule |-> appointments[id].schedule,
                             cancellationReason |->
                                 OrEmpty(appointments[id].cancellationReason)]]
    /\ sent' = NoCall
    /\ UNCHANGED <<appointments, form, page>>
    /\ UNCHANGED <<verVars, doctorVars, uiVars>>

\* AppointmentForm.tsx lines 627-649: the open form calls updateAppointment
\* with its values; ok: updateAppointment answers, and the modal closes
SubmitUpdate(values, ok) ==
    LET patch == [status |-> StatusOf(modal.type),
                  primaryPhysician |-> values.primaryPhysician,
                  schedule |-> values.schedule,
                  cancellationReason |-> values.cancellationReason]
    IN /\ Called("updateAppointment", "modal", modal.appointmentId, modal.type, patch)
       /\ IF ok
          THEN /\ appointments' = UpdateAppointment(modal.appointmentId, patch, modal.type)
               /\ modal' = NoModal
          ELSE /\ appointments' = appointments
               /\ modal' = [modal EXCEPT !.values = values]
       /\ UNCHANGED <<form, page>>
       /\ UNCHANGED <<verVars, doctorVars, uiVars>>

\* AppointmentForm.tsx lines 599-650 with type "schedule": the admin picks a
\* doctor and a date (the fields a schedule form shows) and submits
HandleScheduleSubmit(physician, schedule, ok) ==
    /\ modal.type = "schedule"
    /\ SubmitUpdate([modal.values EXCEPT !.primaryPhysician = physician,
                                         !.schedule = schedule], ok)

\* AppointmentForm.tsx lines 599-650 with type "cancel": the admin types a
\* reason (the one field a cancel form shows) and submits; a form that fails
\* validation calls nothing
HandleCancelSubmit(r, ok) ==
    /\ modal.type = "cancel"
    /\ LET values == [modal.values EXCEPT !.cancellationReason = r]
       IN IF Valid(modal.type, values)
          THEN SubmitUpdate(values, ok)
          ELSE /\ ok
               /\ modal' = [modal EXCEPT !.values = values]
               /\ Declined("modal", r)
               /\ UNCHANGED <<appointments, form, page>>
               /\ UNCHANGED <<verVars, doctorVars, uiVars>>

(* --------------------------- doctor directory -------------------------- *)
\* number of doctors created in a run
MaxDoctors == 1

\* time is counted in minutes since 1970-01-01T00:00Z
Day == 24 * 60
HHMM(h, m) == h * 60 + m
\* the server's zone, the instants at which a doctor is created and the
\* availability windows the add-doctor form is filled with
Zones == {-300, 0, 330}
Instants == {Day + HHMM(1, 0), Day + HHMM(23, 0)}
Availabilities == {<<HHMM(9, 0), HHMM(17, 0)>>}
\* the rates typed into the add-doctor form's text field
RateTexts == {50, 75}

\* a rate is a JSON number, a string of digits, or absent
NumberRate(n) == [kind |-> "number", n |-> n]
StringRate(n) == [kind |-> "string", n |-> n]
NoRate == [kind |-> "undefined", n |-> 0]

Placeholder == "/assets/icons/doctor-placeholder.svg"
\* `${ENDPOINT}/storage/buckets/${BUCKET_ID}/files/${fileId}/view?project=...`
FileUrl(fileId) == <<"/files/", fileId, "/view">>
\* doctor.image.split("/files/")[1].split("/view")[0]
FileIdOf(image) == image[2]

\* today.toISOString().split('T')[0]: the date of an instant in UTC
ToISODate(t) == t \div Day
\* new Date(`${dateString}T${time}`): a date-time without an offset is read
\* in the server's zone
ParseLocal(date, time, z) == date * Day + time - z

\* the doctors the collection holds besides those the form creates: one
\* whose rate is stored as a number and one stored without a rate
SeedDoctor(rate) ==
    [id |-> 0, name |-> "Dr. Emily Rodriguez", rate |-> rate, image |-> Placeholder,
     availability |-> 0, availabilityEndTime |-> 0, createdAt |-> 0,
     start |-> 0, end |-> 0]
Seeds == {<<>>, <<SeedDoctor(NumberRate(60))>>, <<SeedDoctor(NoRate)>>}
\* the name typed into the add-doctor form, and the names the appointment
\* form may hold in its primaryPhysician field
NewNames == {"Dr. Sarah Johnson"}
DoctorNames == NewNames \cup {"Dr. Emily Rodriguez", "Dr. Who", ""}

\* two call slots: two deleteDoctor calls can overlap
DeleteSlots == {1, 2}
\* the slot of a directory in which deletes run one at a time
DirectorySlots == {1}
\* beside the call's locals, closure is the doctors state that the calling
\* handleDeleteDoctor closed over (DoctorsList.tsx line 67)
IdleDelete == [pc |-> "idle", doctorId |-> 0, image |-> Placeholder, blob |-> "none",
               outcome |-> "none", closure |-> <<>>]
NoCost == [name |-> Undefined, value |-> 0]

DoctorIds == {doctors[i].id : i \in 1..Len(doctors)}
DoctorById(id) == CHOOSE d \in {doctors[i] : i \in 1..Len(doctors)} : d.id = id
Without(id) == SelectSeq(doctors, LAMBDA d : d.id # id)

\* createDoctor, lines 250-286: the document createDocument is given at
\* instant t on a server in zone z; start and end keep the two input times
NewDoctor(id, name, rate, image, window, t, z) ==
    [id |-> id, name |-> name, rate |-> rate, image |-> image,
     availability |-> ParseLocal(ToISODate(t), window[1], z),
     availabilityEndTime |-> ParseLocal(ToISODate(t), window[2], z),
     createdAt |-> t, start |-> window[1], end |-> window[2]]

\* part_004 lines 319-346 and createDoctor, lines 228-294: the add-doctor
\* form is submitted with a rate text, an availability window and possibly an
\* image file.  createDoctor reads no shared state between its awaits, so the
\* call is one step.  okFile, okDoc: createFile, createDocument answer; a
\* throw of either is rethrown, and a file already uploaded stays.
CreateDoctor(name, rateText, window, withImage, t, okFile, okDoc) ==
    /\ nextDoctor <= MaxDoctors
    /\ LET uploaded == withImage /\ okFile
           image == IF uploaded THEN FileUrl(nextDoctor) ELSE Placeholder
       IN /\ files' = IF uploaded THEN files \cup {nextDoctor} ELSE files
          /\ doctors' = IF (withImage => okFile) /\ okDoc
                        THEN <<NewDoctor(nextDoctor, name, StringRate(rateText),
                                         image, window, t, zone)>> \o doctors
                        ELSE doctors
    /\ nextDoctor' = nextDoctor + 1
    /\ dret' = IdleDelete
    /\ UNCHANGED <<zone, del, fetched, cost>>
    /\ UNCHANGED <<verVars, apptVars, uiVars>>

\* deleteDoctor, line 338
HasCustomImage(image) == image # Placeholder

\* deleteDoctor, lines 343-346: the catch of the file deletion
CatchDeleteFile_Rethrow(c) == [c EXCEPT !.pc = "idle", !.blob = "failed", !.outcome = "threw"]
CatchDeleteFile(c) == [c EXCEPT !.pc = "d_doc", !.blob = "failed"]

DeleteGoto(p, c) ==
    /\ del' = [del EXCEPT ![p] = c]
    /\ dret' = IdleDelete

DeleteEnd(p, c, outcome) ==
    /\ del' = [del EXCEPT ![p] = IdleDelete]
    /\ dret' = [c EXCEPT !.pc = "idle", !.outcome = outcome]

\* deleteDoctor, lines 329-338: the call and its getDocument
DeleteGet(p, id, ok) ==
    /\ del[p].pc = "idle"
    /\ id \in 0..(nextDoctor - 1)
    /\ LET c0 == [IdleDelete EXCEPT !.doctorId = id, !.closure = board.doctors]
       IN IF ok /\ id \in DoctorIds
          THEN LET image == DoctorById(id).image
               IN DeleteGoto(p, [c0 EXCEPT !.image = image,
                                    !.pc = IF HasCustomImage(image)
                                           THEN "d_file" ELSE "d_doc"])
          ELSE DeleteEnd(p, c0, "threw")
    /\ UNCHANGED <<doctors, files, nextDoctor, zone, fetched, cost>>
    /\ UNCHANGED <<verVars, apptVars, uiVars>>

\* lines 339-347: storage.deleteFile, whose failure is logged and swallowed
DeleteFile(p, ok) ==
    /\ del[p].pc = "d_file"
    /\ IF ok /\ FileIdOf(del[p].image) \in files
       THEN /\ files' = files \ {FileIdOf(del[p].image)}
            /\ DeleteGoto(p, [del[p] EXCEPT !.pc = "d_doc", !.blob = "deleted"])
       ELSE /\ files' = files
            /\ DeleteGoto(p, CatchDeleteFile(del[p]))
    /\ UNCHANGED <<doctors, nextDoctor, zone, fetched, cost>>
    /\ UNCHANGED <<verVars, apptVars, uiVars>>

\* lines 349-361: databases.deleteDocument, then success; a throw is rethrown
DeleteDocument(p, ok) ==
    /\ del[p].pc = "d_doc"
    /\ IF ok /\ del[p].doctorId \in DoctorIds
       THEN /\ doctors' = Without(del[p].doctorId)
            /\ DeleteEnd(p, del[p], "success")
       ELSE /\ doctors' = doctors
            /\ DeleteEnd(p, del[p], "threw")
    /\ UNCHANGED <<files, nextDoctor, zone, fetched, cost>>
    /\ UNCHANGED <<verVars, apptVars, uiVars>>

\* getAllDoctors, lines 297-310: the documents, newest first; of each the
\* form reads the name and the rate
GetAllDoctors == [i \in 1..Len(doctors) |-> [name |-> doctors[i].name, rate |-> doctors[i].rate]]

\* AppointmentForm.tsx lines 527 and 548-565: the form is mounted with an
\* empty list and fetches the directory; when getAllDoctors throws the list
\* stays empty
FetchDoctors(ok) ==
    /\ fetched' = IF ok THEN GetAllDoctors ELSE <<>>
    /\ cost' = NoCost
    /\ dret' = IdleDelete
    /\ UNCHANGED <<doctors, files, nextDoctor, zone, del>>
    /\ UNCHANGED <<verVars, apptVars, uiVars>>

\* doctors.find(doc => doc.name === name): the first of that name, if any
Matches(list, name) == SelectSeq(list, LAMBDA d : d.name = name)
\* typeof rate === 'number' ? rate : baseRate
RateOrBase(rate) == IF rate.kind = "number" THEN rate.n ELSE 50

\* AppointmentForm.tsx lines 672-681
CalculateAppointmentCost(list, name) ==
    IF name = "" THEN 50
    ELSE IF Matches(list, name) = <<>> THEN 50
    ELSE RateOrBase(Matches(list, name)[1].rate)

\* lines 711-717: the payment step is rendered with the cost for the name in
\* the form's primaryPhysician field
ShowPaymentStep(name) ==
    /\ cost' = [name |-> name, value |-> CalculateAppointmentCost(fetched, name)]
    /\ dret' = IdleDelete
    /\ UNCHANGED <<doctors, files, nextDoctor, zone, del, fetched>>
    /\ UNCHANGED <<verVars, apptVars, uiVars>>

(* ------------------------------ DoctorsList ---------------------------- *)
\* DoctorsList.tsx line 26: useState<string | null>(null)
NoDoctor == -1
\* lines 22-32: the list is mounted empty, with no confirmation pending.
\* gone is history: the doctors whose delete has completed successfully
\* since the list was last fetched.
NoList == [doctors |-> <<>>, deleteConfirm |-> NoDoctor, gone |-> {}]

\* the $id of every listed doctor
Listed == {board.doctors[i] : i \in 1..Len(board.doctors)}

\* line 67: doctors.filter(doctor => doctor.$id !== doctorId)
FilterOut(ds, id) == SelectSeq(ds, LAMBDA d : d # id)

\* line 67: the doctors that handleDeleteDoctor filters are those of the
\* render in which the handler was created, not those of the current state
DoctorsOfHandler_Current(c) == board.doctors
DoctorsOfHandler(c) == c.closure

\* a deleteDoctor call has ended and its caller has not resumed yet: the
\* continuation of an await runs before any other event is handled
Awaiting == dret # IdleDelete

\* fetchDoctors, lines 34-46 (run at mount, line 50, and after the add form
\* closes, line 203)
FetchList(ok) ==
    /\ ~Awaiting
    /\ board' = [board EXCEPT
                   !.doctors = IF ok THEN [i \in 1..Len(doctors) |-> doctors[i].id]
                                     ELSE <<>>,
                   !.gone = {}]
    /\ UNCHANGED <<verVars, apptVars, doctorVars, reg>>

\* confirmDelete, lines 74-76: the delete button of a listed doctor's card
ConfirmDelete(id) ==
    /\ ~Awaiting
    /\ id \in Listed
    /\ board' = [board EXCEPT !.deleteConfirm = id]
    /\ UNCHANGED <<verVars, apptVars, doctorVars, reg>>

\* cancelDelete, lines 78-80: the Cancel button of the overlay
CancelDelete ==
    /\ ~Awaiting
    /\ board.deleteConfirm \in Listed
    /\ board' = [board EXCEPT !.deleteConfirm = NoDoctor]
    /\ UNCHANGED <<verVars, apptVars, doctorVars, reg>>

\* handleDeleteDoctor, lines 64-66: the Confirm button of the overlay, which
\* is rendered on the card whose id deleteConfirm holds; nothing disables it
\* while a delete is running
HandleDeleteDoctor(p, id, ok) ==
    /\ ~Awaiting
    /\ board.deleteConfirm = id
    /\ id \in Listed
    /\ DeleteGet(p, id, ok)

\* handleDeleteDoctor, lines 67-71: after the await; the catch only logs
HandleDeleteDoctorResumes ==
    /\ Awaiting
    /\ board' = IF dret.outcome = "success"
               THEN [doctors |-> FilterOut(DoctorsOfHandler(dret), dret.doctorId),
                     deleteConfirm |-> NoDoctor,
                     gone |-> board.gone \cup {dret.doctorId}]
               ELSE board
    /\ dret' = IdleDelete
    /\ UNCHANGED <<doctors, files, nextDoctor, zone, del, fetched, cost>>
    /\ UNCHANGED <<verVars, apptVars, reg>>

(* -------------------- PatientForm and PhoneVerification ---------------- *)
\* part_005 lines 21-32 and part_002 lines 29-50: the form is shown, no
\* values are stored, the component starts at its send step.
\* sendPhone and verifyPhone are the phone fields of sendForm and of
\* verifyForm; timer says that the setTimeout of line 90 is pending.
\* lastSent, okFor and created are history: the phone of the component's
\* last successful sendVerificationSMS, the phones for which isPhoneVerified
\* answered true or verifyCode returned success, and the phones createUser
\* was called with.
NoReg == [view |-> "form", formValues |-> NoPhone, step |-> "send",
          sendPhone |-> NoPhone, verifyPhone |-> NoPhone,
          verificationComplete |-> FALSE, timer |-> FALSE,
          lastSent |-> NoPhone, okFor |-> {}, created |-> {}]

\* the browser tab's calls run in one slot: every handler awaits its call
\* and the buttons are disabled meanwhile
Tab == 1
\* a call of the tab has returned and its handler has not resumed yet
Returned == ret.op # "none"
\* isLoading of either component: from setIsLoading(true) to
\* setIsLoading(false)
Busy == ~Idle(Tab) \/ Returned

\* what the handlers of the tab leave alone beside reg and ret
RegFrame ==
    /\ UNCHANGED <<now, db, nextId, call, miss, undelivered>>
    /\ UNCHANGED <<apptVars, doctorVars, board>>

\* part_005 lines 34-39: onSubmit, up to its await of isPhoneVerified
OnSubmit(ph, ok) ==
    /\ reg.view = "form"
    /\ ~SubmitDisabled(Busy)
    /\ IsPhoneVerified(Tab, ph, ok)

\* part_005 lines 41-48: if (isVerified)
AfterIsVerified_Always(isVerified) == "create"
AfterIsVerified(isVerified) == IF isVerified THEN "create" ELSE "verify"

\* part_005 lines 66-82: createAndRedirectUser calls createUser with the
\* phone of the values and navigates away when a user comes back
CreateAndRedirectUser(r, ph, okUser) ==
    [r EXCEPT !.created = @ \cup {ph},
              !.view = IF okUser THEN "redirected" ELSE @]

\* part_002 lines 36-50: both forms of the component take the phone prop as
\* the default value of their phone field
MountVerification(r, phone) ==
    [r EXCEPT !.view = "verification", !.formValues = phone, !.step = "send",
              !.sendPhone = phone, !.verifyPhone = phone,
              !.verificationComplete = FALSE, !.timer = FALSE,
              !.lastSent = NoPhone]

\* part_005 lines 41-53: onSubmit after its await
OnSubmitResumes(okUser) ==
    /\ reg.view = "form"
    /\ ret.op = "isVerified"
    /\ LET seen == [reg EXCEPT !.okFor = IF ret.result.success
                                         THEN @ \cup {ret.phone} ELSE @]
       IN reg' = IF AfterIsVerified(ret.result.success) = "create"
                 THEN CreateAndRedirectUser(seen, ret.phone, okUser)
                 ELSE MountVerification(seen, ret.phone)
    /\ ret' = NoRet
    /\ RegFrame

\* part_002 lines 155-166: the phone field of the send step can be edited
EditPhone(ph) ==
    /\ reg.view = "verification"
    /\ reg.step = "send"
    /\ ~Busy
    /\ reg' = [reg EXCEPT !.sendPhone = ph]
    /\ UNCHANGED verVars
    /\ UNCHANGED <<apptVars, doctorVars, board>>

\* lines 167, 199, 211, 218: disabled={isLoading || verificationComplete}
ButtonDisabled == Busy \/ reg.verificationComplete

\* part_002 lines 53-59: handleSendCode, up to its await
HandleSendCode(ok) ==
    /\ reg.view = "verification"
    /\ reg.step = "send"
    /\ ~ButtonDisabled
    /\ SendList(Tab, reg.sendPhone, ok)

\* part_002 lines 61-73: handleSendCode after its await
HandleSendCodeResumes ==
    /\ reg.view = "verification"
    /\ reg.step = "send"
    /\ ret.op = "send"
    /\ reg' = IF ret.result.success
              THEN [reg EXCEPT !.step = "verify", !.lastSent = ret.phone]
              ELSE reg
    /\ ret' = NoRet
    /\ RegFrame

\* part_002 lines 76-82: handleVerifyCode, up to its await; the phone is
\* the one of verifyForm, whose field is disabled (line 181)
HandleVerifyCode(c, ok) ==
    /\ reg.view = "verification"
    /\ reg.step = "verify"
    /\ ~ButtonDisabled
    /\ CheckList(Tab, reg.verifyPhone, c, ok)

\* part_002 line 84: if (result.success)
Verified(result) == result.success

\* part_002 lines 84-100: handleVerifyCode after its await
HandleVerifyCodeResumes ==
    /\ reg.view = "verification"
    /\ ret.op = "check"
    /\ reg' = IF Verified(ret.result)
              THEN [reg EXCEPT !.verificationComplete = TRUE, !.timer = TRUE,
                               !.okFor = IF ret.result.success
                                         THEN @ \cup {ret.phone} ELSE @]
              ELSE reg
    /\ ret' = NoRet
    /\ RegFrame

\* part_002 lines 103-110: handleResendCode, up to its await
HandleResendCode(ok) ==
    /\ reg.view = "verification"
    /\ reg.step = "verify"
    /\ ~ButtonDisabled
    /\ SendList(Tab, reg.verifyPhone, ok)

\* part_002 lines 112-123: handleResendCode after its await
HandleResendCodeResumes ==
    /\ reg.view = "verification"
    /\ reg.step = "verify"
    /\ ret.op = "send"
    /\ reg' = IF ret.result.success THEN [reg EXCEPT !.lastSent = ret.phone] ELSE reg
    /\ ret' = NoRet
    /\ RegFrame

\* part_002 lines 126-130: handleBackToSend
HandleBackToSend ==
    /\ reg.view = "verification"
    /\ reg.step = "verify"
    /\ ~ButtonDisabled
    /\ reg' = [reg EXCEPT !.step = "send"]
    /\ UNCHANGED verVars
    /\ UNCHANGED <<apptVars, doctorVars, board>>

\* part_002 lines 90-92 and part_005 lines 57-63: the timer fires and
\* onVerified runs handleVerified with the stored form values
HandleVerified(okUser) ==
    /\ reg.timer
    /\ ~Busy
    /\ reg' = IF reg.formValues # NoPhone
              THEN [CreateAndRedirectUser(reg, reg.formValues, okUser)
                       EXCEPT !.timer = FALSE]
              ELSE [reg EXCEPT !.timer = FALSE]
    /\ UNCHANGED verVars
    /\ UNCHANGED <<apptVars, doctorVars, board>>

\* the page is loaded again: part_005 lines 21-32 run anew
Reload ==
    /\ ~Busy
    /\ reg # NoReg
    /\ reg' = NoReg
    /\ UNCHANGED verVars
    /\ UNCHANGED <<apptVars, doctorVars, board>>

InitUi ==
    /\ reg = NoReg
    /\ board = NoList

InitVerification ==
    /\ now = 0
    /\ db = {}
    /\ nextId = 1
    /\ call = [p \in Procs |-> IdleCall]
    /\ ret = NoRet
    /\ miss = NoMiss
    /\ undelivered = {}

InitAppointments ==
    /\ appointments = <<>>
    /\ form = NoForm
    /\ page = NoPage
    /\ modal = NoModal
    /\ sent = NoCall

\* the directory as the run finds it when it holds the doctors of seed and
\* the server runs in zone z
InitDirectory(seed, z) ==
    /\ doctors = seed
    /\ files = {}
    /\ nextDoctor = 1
    /\ zone = z
    /\ del = [p \in DeleteSlots |-> IdleDelete]
    /\ dret = IdleDelete
    /\ fetched = <<>>
    /\ cost = NoCost

Init == InitVerification /\ InitAppointments /\ InitDirectory(<<>>, 0) /\ InitUi

\* the directory may hold doctors already, and the server may run in any zone
InitDoctors ==
    /\ InitVerification
    /\ InitAppointments
    /\ \E seed \in Seeds, z \in Zones : InitDirectory(seed, z)
    /\ InitUi

\* the awaited steps of a handler already running in slot p; Oks holds the
\* outcomes a collaborator call may have (TRUE: it answers, FALSE: it throws)
Step(p, Oks) ==
    \E ok \in Oks :
        \/ SendDelete(p, ok)
        \/ SendCreate(p, ok)
        \/ SendSms(p, ok)
        \/ CheckDelete(p, ok)
        \/ CheckUpdate(p, ok)
        \/ CheckMark(p, ok)

\* the codes submitted for phone ph
Submitted(ph) ==
    IF ph = Caller THEN SubmitCodes ELSE {r.code : r \in {x \in db : x.phone = ph}}

\* a new call in slot p, for a phone of Phs.  A query of isPhoneVerified
\* that throws changes nothing, so every specification lets it throw.
Start(p, Oks, Phs) ==
    \E ph \in Phs :
        \/ \E ok \in Oks : SendList(p, ph, ok)
        \/ \E ok \in Oks, c \in Submitted(ph) : CheckList(p, ph, c, ok)
        \/ \E ok \in BOOLEAN : IsPhoneVerified(p, ph, ok)

Answers == {TRUE}
AnswersOrThrows == BOOLEAN

\* calls for one phone overlap freely within one lifetime of a code; the
\* collaborators answer
Next ==
    \/ \E p \in Procs : Start(p, Answers, {Caller})
    \/ \E p \in Procs : Step(p, Answers)

Spec == Init /\ [][Next]_vars

\* calls never overlap: a call starts only when no other is running
NextSeq ==
    \/ Tick
    \/ \E p \in Procs : Quiet /\ Start(p, Answers, Phones)
    \/ \E p \in Procs : Step(p, Answers)

SpecSeq == Init /\ [][NextSeq]_vars

\* calls for one phone never overlap, and any collaborator call may throw
NextSeqFault ==
    \/ Tick
    \/ \E p \in Procs : Quiet /\ Start(p, AnswersOrThrows, {Caller})
    \/ \E p \in Procs : Step(p, AnswersOrThrows)

SpecSeqFault == Init /\ [][NextSeqFault]_vars

\* the appointment's life: the patient's create flow, the success page and
\* the admin table act in any order; Oks as above
NextAppt(Oks) ==
    \/ \E ph \in Physicians, sc \in Schedules, pid \in {"", "patient"} :
          HandleAppointmentSubmit(ph, sc, pid)
    \/ PaymentOnSubmit
    \/ \E ok \in Oks, okLoad \in Oks : HandlePaymentComplete(ok, okLoad)
    \/ \E id \in AppointmentIds, ok \in Oks : OpenSuccessPage(id, ok)
    \/ \E r \in Reasons, ok \in Oks : HandleCancelAppointment(r, ok)
    \/ \E id \in AppointmentIds, type \in {"schedule", "cancel"} : OpenModal(id, type)
    \/ \E ph \in Physicians, sc \in Schedules, ok \in Oks :
          HandleScheduleSubmit(ph, sc, ok)
    \/ \E r \in AdminReasons, ok \in Oks : HandleCancelSubmit(r, ok)

NextAppointments == NextAppt(AnswersOrThrows)

\* the patient's session (the create form, the payment step, the success
\* page) beside an admin who cancels
NextPatient ==
    \/ \E ph \in Physicians, sc \in Schedules, pid \in {"", "patient"} :
          HandleAppointmentSubmit(ph, sc, pid)
    \/ PaymentOnSubmit
    \/ \E ok \in AnswersOrThrows, okLoad \in AnswersOrThrows : HandlePaymentComplete(ok, okLoad)
    \/ \E id \in AppointmentIds, ok \in AnswersOrThrows : OpenSuccessPage(id, ok)
    \/ \E r \in Reasons, ok \in AnswersOrThrows : HandleCancelAppointment(r, ok)
    \/ \E id \in AppointmentIds : OpenModal(id, "cancel")
    \/ \E r \in AdminReasons, ok \in AnswersOrThrows : HandleCancelSubmit(r, ok)

\* a timer that was set fires: the event loop runs every due timer
TimerFires == \E ok \in AnswersOrThrows, okLoad \in AnswersOrThrows : HandlePaymentComplete(ok, okLoad)

SpecPatient == Init /\ [][NextPatient]_vars /\ WF_vars(TimerFires)

SpecAppt == Init /\ [][NextAppointments]_vars

\* the directory: doctors are added and deleted, the appointment form
\* fetches the list and shows the payment step
NextDoctors ==
    \/ \E name \in NewNames, r \in RateTexts, w \in Availabilities,
          withImage \in BOOLEAN, t \in Instants, okFile \in BOOLEAN, okDoc \in BOOLEAN :
          CreateDoctor(name, r, w, withImage, t, okFile, okDoc)
    \/ \E p \in DirectorySlots, id \in 1..MaxDoctors, ok \in BOOLEAN : DeleteGet(p, id, ok)
    \/ \E p \in DirectorySlots, ok \in BOOLEAN : DeleteFile(p, ok)
    \/ \E p \in DirectorySlots, ok \in BOOLEAN : DeleteDocument(p, ok)
    \/ \E ok \in BOOLEAN : FetchDoctors(ok)
    \/ \E name \in DoctorNames : ShowPaymentStep(name)

SpecDoctors == InitDoctors /\ [][NextDoctors]_vars

\* the admin's doctors page: doctors are added, the list is fetched, and
\* deletes are confirmed and run, two at a time at most
NextList ==
    \/ \E name \in NewNames, w \in Availabilities, t \in Instants,
          withImage \in BOOLEAN, okDoc \in BOOLEAN :
          ~Awaiting /\ CreateDoctor(name, 50, w, withImage, t, TRUE, okDoc)
    \/ \E ok \in BOOLEAN : FetchList(ok)
    \/ \E id \in 0..MaxDoctors : ConfirmDelete(id)
    \/ CancelDelete
    \/ \E p \in DeleteSlots, id \in 0..MaxDoctors, ok \in BOOLEAN :
          HandleDeleteDoctor(p, id, ok)
    \/ \E p \in DeleteSlots, ok \in BOOLEAN : ~Awaiting /\ DeleteFile(p, ok)
    \/ \E p \in DeleteSlots, ok \in BOOLEAN : ~Awaiting /\ DeleteDocument(p, ok)
    \/ HandleDeleteDoctorResumes

\* the page is opened on a directory that holds one doctor already
InitList ==
    /\ InitVerification
    /\ InitAppointments
    /\ InitDirectory(<<SeedDoctor(NumberRate(60))>>, 0)
    /\ InitUi

SpecList == InitList /\ [][NextList]_vars

\* one visitor registers: the form, the verification component and the
\* service's steps of the tab's calls, within one lifetime of a code
NextRegister ==
    \/ \E ph \in Phones, ok \in BOOLEAN : OnSubmit(ph, ok)
    \/ \E okUser \in BOOLEAN : OnSubmitResumes(okUser)
    \/ \E ph \in Phones : EditPhone(ph)
    \/ \E ok \in AnswersOrThrows : HandleSendCode(ok)
    \/ HandleSendCodeResumes
    \/ \E c \in SubmitCodes, ok \in AnswersOrThrows : HandleVerifyCode(c, ok)
    \/ HandleVerifyCodeResumes
    \/ \E ok \in AnswersOrThrows : HandleResendCode(ok)
    \/ HandleResendCodeResumes
    \/ HandleBackToSend
    \/ \E okUser \in BOOLEAN : HandleVerified(okUser)
    \/ Reload
    \/ Step(Tab, AnswersOrThrows)

SpecRegister == Init /\ [][NextRegister]_vars

(* ------------------------------- claims -------------------------------- *)
\* what the claims mean by an unexpired record, stated apart from the queries
Live(r) == r.expiresAt > now
LiveOf(ph) == {r \in db : r.phone = ph /\ Live(r)}
Running == {p \in Procs : ~Idle(p)}
\* the calls a step starts: they run, or have returned, after it
StartedChecks(c, r) == {x \in {c[p] : p \in Procs} \cup {r} : x.op = "check"}
LastAttempt == MaxAttempts - 1

\* C1: in every state of a run of non-overlapping calls, the states between
\* the database steps of a call included, each phone has at most one
\* unexpired verification record.
C1_AtMostOneLive == \A ph \in Phones : Cardinality(LiveOf(ph)) <= 1

\* a resend has deleted the old record and stored the new one
C1_Witness ==
    \E p \in Procs : /\ call[p].pc = "s_sms"
                     /\ call[p].pre # {}
                     /\ Cardinality(LiveOf(call[p].phone)) = 1

\* C2: the same invariant in every interleaving of two overlapping
\* sendVerificationSMS calls: no two unexpired records share a phone.
C2_AtMostOneLiveOverlapping ==
    \A r1 \in db, r2 \in db :
        (r1.phone = r2.phone /\ Live(r1) /\ Live(r2)) => r1.id = r2.id

\* C3, as claimed: right after sendVerificationSMS returns success at time t
\* (now), the phone has exactly one unexpired record, with attempts 0, not
\* verified, expiresAt = t + 10 and the new code, and every record that was
\* unexpired before the call is gone.
C3_AsClaimed ==
    (ret.op = "send" /\ ret.result.success) =>
        /\ Cardinality(LiveOf(ret.phone)) = 1
        /\ \A r \in LiveOf(ret.phone) :
              /\ r.attempts = 0
              /\ ~r.verified
              /\ r.expiresAt = now + Ttl
              /\ r.code = ret.code
        /\ ret.pre \cap Ids(db) = {}

\* C3, amended: the lifetime runs from the time s <= t at which the call
\* stored the record: the phone has exactly one record with expiresAt later
\* than s (hence at most one unexpired at t), with attempts 0, not verified,
\* expiresAt = s + 10 and the new code, and every record that was unexpired
\* before the call is gone.
C3_SendStoresFreshRecord ==
    (ret.op = "send" /\ ret.result.success) =>
        LET kept == {r \in db : r.phone = ret.phone /\ r.expiresAt > ret.made}
        IN /\ ret.made <= now
           /\ Cardinality(kept) = 1
           /\ Cardinality(LiveOf(ret.phone)) <= 1
           /\ \A r \in kept :
                 /\ r.attempts = 0
                 /\ ~r.verified
                 /\ r.expiresAt = ret.made + Ttl
                 /\ r.code = ret.code
           /\ ret.pre \cap Ids(db) = {}

\* a successful resend during which the clock advanced after the record was
\* stored
C3_Witness ==
    /\ ret.op = "send"
    /\ ret.result.success
    /\ ret.pre # {}
    /\ ret.made < now

\* C4: a verifyCode call that finds an unexpired, unverified record with
\* stored attempts a < 4 returns success with the matching code, leaving
\* verified = true, and the "Invalid code" failure with any other code,
\* leaving verified = false; either way the stored attempts are a + 1.
C4_CheckBelowCeiling ==
    (ret.op = "check" /\ ret.pre # {}) =>
        /\ ret.ver.id \in ret.pre
        /\ (~ret.ver.verified /\ ret.ver.attempts < LastAttempt) =>
              \E r \in db :
                 /\ r.id = ret.ver.id
                 /\ r.attempts = ret.ver.attempts + 1
                 /\ IF ret.code = ret.ver.code
                    THEN r.verified /\ ret.result = Result(TRUE, MsgVerified, 0)
                    ELSE /\ ~r.verified
                         /\ ~ret.result.success
                         /\ ret.result.message = MsgInvalid

\* the fourth check of a record, with the right code after three wrong ones
C4_Witness ==
    /\ ret.op = "check"
    /\ ret.ver.attempts = LastAttempt - 1
    /\ ret.result.message = MsgVerified
    /\ \E r \in db : r.id = ret.ver.id /\ r.verified /\ r.attempts = LastAttempt

\* C5: a record's verified flag never goes back to false, and a verifyCode
\* call that starts while the phone has an unexpired verified record returns
\* "Phone already verified" whatever the code and changes no record.
C5_VerifiedOnce ==
    [][ /\ \A r \in db : r.verified =>
               \A r2 \in db' : r2.id = r.id => r2.verified
        /\ Quiet =>
              \A c \in StartedChecks(call', ret') :
                  (\E r \in LiveOf(c.phone) : r.verified) =>
                      /\ ret' = c
                      /\ c.result = Result(TRUE, MsgAlready, 0)
                      /\ db' = db
      ]_vars

\* a check with a wrong code against a verified record returned success
C5_Witness ==
    /\ ret.op = "check"
    /\ ret.result = Result(TRUE, MsgAlready, 0)
    /\ ret.code # ret.ver.code
    /\ \E r \in db : r.id = ret.ver.id /\ r.verified /\ r.attempts = ret.ver.attempts

\* a verifyCode call for the phone of the counted record starts in this step
\* and returns "expired or not found"
NextCheckNotFound ==
    (Quiet /\ miss.n >= MaxAttempts /\ miss.id \notin Ids(db)) =>
        \A c \in StartedChecks(call', ret') :
            c.phone = miss.phone =>
                ret' = c /\ c.result = Result(FALSE, MsgNotFound, 0)

\* C6, as claimed: after 5 verifyCode calls with incorrect codes against one
\* unexpired record, with no sendVerificationSMS in between, the record no
\* longer exists, and the next verifyCode call reports "expired or not found".
C6_AsClaimed ==
    [][ /\ miss'.n >= MaxAttempts => miss'.id \notin Ids(db')
        /\ NextCheckNotFound
      ]_vars

\* C6, amended: after 5 such calls the record no longer exists unless it was
\* verified (a verified record answers every call with "already verified"
\* and stays); once it is gone the next verifyCode call reports "expired or
\* not found".
C6_FiveMissesDelete ==
    [][ /\ miss'.n >= MaxAttempts =>
               \A r \in db' : r.id = miss'.id => r.verified
        /\ NextCheckNotFound
      ]_vars

\* the call after the fifth miss reported "expired or not found"
C6_Witness ==
    /\ ret.op = "check"
    /\ ret.result.message = MsgNotFound
    /\ ret.phone = miss.phone
    /\ miss.n >= MaxAttempts
    /\ miss.id \notin Ids(db)

\* C7: in every interleaving of overlapping calls the stored attempts of
\* every record stay between 0 and 4.
C7_AttemptsBelowCeiling == \A r \in db : r.attempts \in 0..LastAttempt

\* two calls overlap while a record stands at 4 attempts
C7_Witness ==
    /\ Cardinality(Running) = 2
    /\ \E r \in db : r.attempts = LastAttempt

\* C8: a verifyCode call that finds an unexpired, unverified record with 4
\* stored attempts deletes it and returns "Too many failed attempts" whether
\* or not the code matches; the record is never marked verified.
C8_CeilingBeforeCompare ==
    /\ (ret.op = "check" /\ ret.pre # {}) =>
          /\ ret.ver.id \in ret.pre
          /\ (~ret.ver.verified /\ ret.ver.attempts = LastAttempt) =>
                /\ ret.result = Result(FALSE, MsgTooMany, 0)
                /\ ret.ver.id \notin Ids(db)
    /\ \A p \in Procs :
          (call[p].op = "check" /\ ~Idle(p) /\ call[p].ver.attempts = LastAttempt) =>
              \A r \in db : r.id = call[p].ver.id => ~r.verified

\* the fifth check carried the right code and was still refused
C8_Witness ==
    /\ ret.op = "check"
    /\ ret.code = ret.ver.code
    /\ ret.result.message = MsgTooMany

\* C9: a verifyCode call that starts when the phone has no unexpired record
\* returns "expired or not found" whatever the code, isPhoneVerified then
\* returns false, and a record that has expired is changed or deleted only by
\* a call that started before it expired.
C9_ExpiredIsInert ==
    [][ /\ Quiet =>
              \A c \in StartedChecks(call', ret') :
                  LiveOf(c.phone) = {} =>
                      /\ ret' = c
                      /\ c.result = Result(FALSE, MsgNotFound, 0)
                      /\ db' = db
        /\ (Quiet /\ ret'.op = "isVerified" /\ LiveOf(ret'.phone) = {}) =>
              ~ret'.result.success
        /\ \A r \in db :
              (~Live(r) /\ r \notin db') =>
                  \E p \in Running : r.id \in call[p].pre
      ]_vars

\* at the very minute of expiry the right code for a verified record is
\* refused
C9_Witness ==
    /\ ret.op = "check"
    /\ ret.result.message = MsgNotFound
    /\ \E r \in db : /\ r.phone = ret.phone
                     /\ r.code = ret.code
                     /\ r.verified
                     /\ r.expiresAt = now

\* C10: isPhoneVerified returns true exactly when its query answers and a
\* record of that phone with verified = true and expiresAt later than the
\* call time exists; when the query throws it returns false.
C10_IsVerifiedIff ==
    ret.op = "isVerified" =>
        (ret.result.success <=>
            (~ret.fault /\ \E r \in db : r.phone = ret.phone /\ r.verified /\ Live(r)))

\* it returned true for one phone while the other phone has a record too
C10_Witness ==
    /\ ret.op = "isVerified"
    /\ ret.result.success
    /\ \E r \in db : r.phone # ret.phone

\* C11: verifyCode stores the count it computed from its own read, so the
\* last write wins: after a wrong-code call returns, the stored attempts are
\* one above what that call read, and a call that read the same count and
\* has not written yet is about to store that same value again.
C11_LastWriteWins ==
    (ret.op = "check" /\ ret.result.message = MsgInvalid) =>
        /\ \E r \in db : r.id = ret.ver.id /\ r.attempts = ret.ver.attempts + 1
        /\ \A q \in Procs :
              (/\ call[q].pc = "v_update"
               /\ call[q].ver.id = ret.ver.id
               /\ call[q].ver.attempts = ret.ver.attempts) =>
                  \E r \in db : r.id = ret.ver.id /\ r.attempts = call[q].attempts

\* two wrong-code calls against a new record have returned and its stored
\* attempts are 1
C11_Witness ==
    /\ ret.op = "check"
    /\ ret.result.message = MsgInvalid
    /\ ret.ver.attempts = 0
    /\ miss.id = ret.ver.id
    /\ miss.n = 2
    /\ \E r \in db : r.id = ret.ver.id /\ r.attempts = 1 /\ ~r.verified

\* C12: sendVerificationSMS and verifyCode always return a result:
\* whichever step throws, sendVerificationSMS returns the "Failed to send
\* verification code" failure and verifyCode the "Failed to verify code"
\* failure, and they return these only when a step threw.
C12_NeverThrows ==
    /\ ret.op = "send" =>
          /\ ret.result.message \in {MsgSent, MsgSendFailed}
          /\ ret.fault <=> ret.result = Result(FALSE, MsgSendFailed, 0)
    /\ ret.op = "check" =>
          /\ ret.result.message \in {MsgNotFound, MsgAlready, MsgTooMany,
                                      MsgInvalid, MsgVerified, MsgVerifyFailed}
          /\ ret.fault <=> ret.result = Result(FALSE, MsgVerifyFailed, 0)

\* the update that marks the record verified threw after the count was stored
C12_Witness ==
    /\ ret.op = "check"
    /\ ret.fault
    /\ ret.code = ret.ver.code
    /\ \E r \in db : r.id = ret.ver.id /\ r.attempts = ret.attempts /\ ~r.verified

(* ---------------------- claims on the appointments --------------------- *)
Populated(r) == r \notin {Undefined, ""}

\* C13: after any sequence of create, schedule and cancel actions an
\* appointment's cancellationReason is non-empty exactly when its status is
\* cancelled.
C13_ReasonIffCancelled ==
    \A id \in AppointmentIds :
        Populated(appointments[id].cancellationReason)
            <=> appointments[id].status = "cancelled"

\* C14: createAppointment is called only by the payment step's completion
\* callback, never by the submission of the appointment form, and the
\* document it is given has status pending and no cancellationReason.
C14_CreateAfterPayment ==
    sent.fn = "createAppointment" =>
        /\ sent.by = "payment"
        /\ sent.type = "create"
        /\ sent.status = "pending"
        /\ sent.cancellationReason = Undefined

\* the callback fired and the appointment was persisted as pending
C14_Witness ==
    /\ sent.fn = "createAppointment"
    /\ form.step = "form"
    /\ \E id \in AppointmentIds :
          /\ id = sent.appointmentId
          /\ appointments[id].status = "pending"
          /\ appointments[id].cancellationReason = Undefined

\* C15: a cancel action with a reason, applied to an appointment that the
\* last update scheduled, ends with status cancelled and that reason, and
\* with the schedule and primaryPhysician the schedule action wrote.
C15_CancelKeepsSchedule ==
    [][ \A id \in AppointmentIds :
            (/\ appointments[id].status = "scheduled"
             /\ sent'.fn = "updateAppointment"
             /\ sent'.type = "cancel"
             /\ sent'.appointmentId = id
             /\ appointments' # appointments) =>
                /\ appointments'[id].status = "cancelled"
                /\ appointments'[id].cancellationReason = sent'.cancellationReason
                /\ appointments'[id].schedule = appointments[id].schedule
                /\ appointments'[id].primaryPhysician = appointments[id].primaryPhysician
      ]_vars

\* C16: on the success page a cancel request with an empty or blank reason
\* calls no server action and leaves the page's state and the appointment
\* unchanged, and every call the page issues is updateAppointment with type
\* cancel, status cancelled and a reason that is not blank.
C16_BlankReasonRefused ==
    [][ sent'.by = "page" =>
            /\ BlankReason(sent'.cancellationReason) => sent'.fn = "none"
            /\ sent'.fn = "none" => (page' = page /\ appointments' = appointments)
            /\ sent'.fn # "none" =>
                  /\ sent'.fn = "updateAppointment"
                  /\ sent'.type = "cancel"
                  /\ sent'.status = "cancelled"
                  /\ Trim(sent'.cancellationReason) # ""
                  /\ sent'.appointmentId = page.appointmentId
      ]_vars

\* a reason of blanks only was refused on a page that shows a loaded,
\* uncancelled appointment
C16_Witness ==
    /\ sent.by = "page"
    /\ sent.fn = "none"
    /\ sent.cancellationReason = " "
    /\ page.appointmentData # NoAppointment
    /\ ~page.isCancelled

\* C17: the admin table opens the schedule and the cancel modal for every
\* appointment whatever its status, and the open form can be submitted and,
\* when updateAppointment answers, gives the appointment the status of the
\* form's type whatever its status was.
C17_NoStatusBlocks ==
    /\ \A id \in AppointmentIds, type \in {"schedule", "cancel"} :
          ENABLED OpenModal(id, type)
    /\ modal.type = "schedule" =>
          \A ph \in Physicians, sc \in Schedules :
              ENABLED (/\ HandleScheduleSubmit(ph, sc, TRUE)
                       /\ appointments'[modal.appointmentId].status = "scheduled")
    /\ modal.type = "cancel" =>
          ENABLED (/\ HandleCancelSubmit("conflict", TRUE)
                   /\ appointments'[modal.appointmentId].status = "cancelled")

\* a cancelled appointment was scheduled: it still carries its reason
C17_Witness ==
    /\ sent.by = "modal"
    /\ sent.fn = "updateAppointment"
    /\ sent.type = "schedule"
    /\ \E id \in AppointmentIds :
          /\ id = sent.appointmentId
          /\ appointments[id].status = "scheduled"
          /\ appointments[id].cancellationReason = "conflict"

\* the date and the time of day of instant t read in zone z
DateIn(t, z) == (t + z) \div Day
TimeIn(t, z) == (t + z) % Day

\* the created doctor d shows its window on its creation date when read in zone z
OnCreationDate(d, z) ==
    /\ DateIn(d.availability, z) = DateIn(d.createdAt, z)
    /\ DateIn(d.availabilityEndTime, z) = DateIn(d.createdAt, z)
    /\ TimeIn(d.availability, z) = d.start
    /\ TimeIn(d.availabilityEndTime, z) = d.end

Created == {doctors[i] : i \in {j \in 1..Len(doctors) : doctors[j].id # 0}}

\* C18: for every creation instant and every server zone, a doctor created
\* with window 'HH:MM - HH:MM' is stored with availability and
\* availabilityEndTime on the creation date at the two input times, read
\* either in the server's zone or in UTC.
C18_AvailabilityOnCreationDate ==
    \A d \in Created : OnCreationDate(d, zone) \/ OnCreationDate(d, 0)

\* C19: deleteDoctor attempts the file deletion only for an image that is not
\* the placeholder; a failed file deletion leads on to the document deletion,
\* and when that answers the document is gone and the call returns success.
C19_BlobFailureSwallowed ==
    /\ \A p \in DeleteSlots :
          /\ del[p].pc = "d_file" => del[p].image # Placeholder
          /\ del[p].blob # "none" => del[p].image # Placeholder /\ del[p].pc = "d_doc"
    /\ dret.blob # "none" => dret.image # Placeholder
    /\ dret.outcome = "success" => dret.doctorId \notin DoctorIds
    /\ \A p \in DeleteSlots :
          del[p].blob = "failed" /\ del[p].doctorId \in DoctorIds
              => ENABLED (DeleteDocument(p, TRUE) /\ dret'.outcome = "success"
                          /\ del[p].doctorId \notin {doctors'[i].id : i \in 1..Len(doctors')})

\* a file deletion failed, the document is deleted and the call returned
\* success
C19_Witness ==
    /\ dret.outcome = "success"
    /\ dret.blob = "failed"
    /\ dret.doctorId \notin DoctorIds

\* the number a stored rate stands for
RateValue(rate) == rate.n

\* C20: the cost handed to the payment step is the stored rate of the doctor
\* the form selected, whenever the list the form fetched holds that doctor
\* with a rate, a doctor added through the add-doctor form included; it is
\* 50 when no doctor is selected, the name is not listed or the doctor has
\* no rate.
C20_CostIsStoredRate ==
    cost.name # Undefined =>
        LET found == Matches(fetched, cost.name)
        IN IF cost.name = "" \/ found = <<>> THEN cost.value = 50
           ELSE IF found[1].rate.kind = "undefined" THEN cost.value = 50
           ELSE cost.value = RateValue(found[1].rate)

\* the count the last "Invalid code" message reported for the record the
\* checks run against, in a run of non-overlapping calls whose collaborators
\* answer: 5 less the wrong codes so far
Remaining == MaxAttempts - miss.n

\* C23: after a mismatch reported "k attempts remaining" for a record, a
\* verifyCode call that is one of the next k non-overlapping calls for that
\* phone, finds the record unexpired and carries its code is accepted.
C23_RemainingCanSucceed ==
    ( /\ ret.op = "check"
      /\ ret.pre # {}
      /\ ret.code = ret.ver.code
      /\ ~ret.ver.verified
      /\ miss.id = ret.ver.id
      /\ miss.n = ret.ver.attempts
      /\ miss.n >= 1
      /\ Remaining >= 1 ) => ret.result.success

\* C24: in every interleaving of overlapping verifyCode calls, at most 4
\* submitted codes are compared with the code of a record while that record
\* is stored and not verified.
C24_AtMostFourCompares ==
    \A r \in db : (r.id = miss.id /\ ~r.verified) => miss.cmp <= LastAttempt

\* C25: in a run of non-overlapping calls whose collaborators answer, once
\* sendVerificationSMS has returned success the phone has no unexpired
\* verified record, also when it had one before; a record becomes verified
\* only in the step in which a verifyCode call for it returns "Phone
\* verified successfully"; and isPhoneVerified returns true only while an
\* unexpired verified record of the phone exists.  So after a resend
\* isPhoneVerified is false until a new verifyCode call succeeds.
C25_ResendUnverifies ==
    [][ /\ (ret'.op = "send" /\ ret'.result.success) =>
               \A r \in db' : (r.phone = ret'.phone /\ r.expiresAt > now') => ~r.verified
        /\ \A r \in db' :
               r.verified =>
                   \/ \E r0 \in db : r0.id = r.id /\ r0.verified
                   \/ /\ ret'.op = "check"
                      /\ ret'.result = Result(TRUE, MsgVerified, 0)
                      /\ ret'.ver.id = r.id
        /\ (ret'.op = "isVerified" /\ ret'.result.success) =>
               \E r \in db : r.phone = ret'.phone /\ r.verified /\ Live(r)
      ]_vars

\* a send for a phone that was verified returned success, and the phone's
\* only unexpired record is the new, unverified one
C25_Witness ==
    /\ ret.op = "send"
    /\ ret.result.success
    /\ ret.wasVerified
    /\ \E r \in LiveOf(ret.phone) : r.code = ret.code /\ ~r.verified

\* C26: when the SMS dispatch throws after the record was stored,
\* sendVerificationSMS returns its failure and nothing is rolled back: the
\* records that were unexpired before stay deleted and the new record stays
\* stored with 0 attempts; a later verifyCode call that finds it unexpired
\* below the ceiling and carries its code is accepted when its collaborators
\* answer.
C26_NoRollback ==
    /\ (ret.op = "send" /\ ret.fault /\ ret.code # NoCode) =>
          /\ ret.result = Result(FALSE, MsgSendFailed, 0)
          /\ ret.pre \cap Ids(db) = {}
          /\ \E r \in db : /\ r.code = ret.code
                           /\ r.phone = ret.phone
                           /\ r.attempts = 0
                           /\ ~r.verified
    /\ ( /\ ret.op = "check"
         /\ ret.code \in undelivered
         /\ ret.ver.code = ret.code
         /\ ret.ver.attempts < LastAttempt
         /\ ~ret.fault ) => ret.result.success

\* the code of a record whose SMS was never sent, which replaced an older
\* record, was accepted
C26_Witness ==
    /\ ret.op = "check"
    /\ ret.code \in undelivered
    /\ ret.result = Result(TRUE, MsgVerified, 0)
    /\ ret.ver.id > 1
    /\ Cardinality(db) = 1

\* C28: an updateAppointment call of type cancel leaves the stored schedule
\* and primaryPhysician of every appointment as they were, also when the
\* appointment was rescheduled after the cancelling view had loaded it.
C28_CancelLeavesSchedule ==
    [][ (sent'.fn = "updateAppointment" /\ sent'.type = "cancel") =>
            \A id \in AppointmentIds :
                /\ appointments'[id].schedule = appointments[id].schedule
                /\ appointments'[id].primaryPhysician = appointments[id].primaryPhysician
      ]_vars

\* C30: the appointment form, on the patient's page or in the admin's modal,
\* calls updateAppointment only with type schedule or cancel, for an
\* appointment that exists and with status scheduled or cancelled; a form of
\* type create calls no update whatever its patientId.
C30_UpdateOnlyToScheduleOrCancel ==
    (sent.fn = "updateAppointment" /\ sent.by \in {"form", "modal"}) =>
        /\ sent.type \in {"schedule", "cancel"}
        /\ sent.appointmentId \in AppointmentIds
        /\ sent.status \in {"scheduled", "cancelled"}

\* C22: a submission of the payment form calls nothing itself and sets one
\* timer; the completion callback is invoked only by that timer, which is
\* spent by it, and finds the loading flag cleared; a pending timer ends in
\* no other way, and nothing sets a timer but a submission.  Every
\* submission is followed by its callback.
C22_CallbackOncePerSubmission ==
    /\ [][ /\ (~IsLoading /\ IsLoading') => (form.step = "payment" /\ sent'.fn = "none")
           /\ sent'.by = "payment" =>
                 /\ IsLoading /\ ~IsLoading'
                 /\ ~sent'.loading
                 /\ sent'.fn = "createAppointment"
           /\ (IsLoading /\ ~IsLoading') => sent'.by = "payment"
         ]_vars
    /\ (IsLoading ~> sent.by = "payment")

\* the callback ran and createAppointment threw: the payment step is shown
\* again with no timer pending
C22_Witness ==
    /\ sent.by = "payment"
    /\ ~sent.loading
    /\ form.step = "payment"
    /\ appointments = <<>>

\* C29 (as stated): once a delete of doctor d has completed successfully, d
\* is absent from the list's doctors in every later state until the next
\* fetch, also when two deletions are in flight at the same time; and a
\* failed delete leaves the list and the pending confirmation unchanged.
C29_DeletedStaysAbsent ==
    /\ [](\A d \in board.gone : d \notin Listed)
    /\ [][(Awaiting /\ dret.outcome = "threw")
            => /\ board'.doctors = board.doctors
               /\ board'.deleteConfirm = board.deleteConfirm]_vars

C27_VerifiesTheSentPhone ==
    /\ call[Tab].op = "check" => call[Tab].phone = reg.lastSent
    /\ ret.op = "check" => ret.phone = reg.lastSent
====
